---- MODULE Spec2Model ----
(***************************************************************************)
(* A model of the reading-statistics application: the SQLite file with    *)
(* its tables book and page_stat_data, the two utilities that write to it *)
(* (create_reading_entries, merge_books, src/utils/utilities.py) and the  *)
(* per-book completion series of the summary (src/utils/summary.py).      *)
(*                                                                         *)
(* A nullable SQL value is a sequence of length at most one: << >> is     *)
(* NULL and <<v>> is the value v.  Times are epoch seconds.               *)
(***************************************************************************)
EXTENDS Integers, Sequences, FiniteSets, TLC

VARIABLES
    book,       \* committed table book: id -> [title, pages, total_read_time, total_read_pages]
    psd,        \* committed table page_stat_data, in rowid order
    txBook,     \* table book as the open connection sees it (uncommitted changes included)
    txPsd,      \* table page_stat_data as the open connection sees it
    conn,       \* the local variable conn: "unbound", "open" or "closed"
    pc,         \* position of the running call, "idle" when none runs
    call,       \* the arguments of the running (or last) call
    frame,      \* the local variables of create_reading_entries
    result,     \* what the last call returned (or the exception that escaped it)
    preBook,    \* table book when the running (or last) call started
    prePsd,     \* table page_stat_data when the running (or last) call started
    series      \* the last chart series computed by the summary

vars == <<book, psd, txBook, txPsd, conn, pc, call, frame, result, preBook, prePsd, series>>

----------------------------------------------------------------------------
(* Bounds of the model *)

MaxBookId == 3
MaxRows == 2
MaxPages == 3
MaxDays == 2
MaxMinutes == 2
MaxPlotRows == 3

----------------------------------------------------------------------------
(* SQL values *)

NULL == << >>
Some(v) == <<v>>
IsNull(x) == x = NULL
Val(x) == x[1]

\* COALESCE(x, d)
Coalesce(x, d) == IF IsNull(x) THEN Some(d) ELSE x

\* x + y in SQL: NULL when either operand is NULL
SqlAdd(x, y) == IF IsNull(x) \/ IsNull(y) THEN NULL ELSE Some(Val(x) + Val(y))

Min(a, b) == IF a <= b THEN a ELSE b

BookIds == 1..MaxBookId
TitleOf(id) == "Book " \o ToString(id)
NoCall == [op |-> "none"]
NoFrame == [total_pages |-> 0]
NoSeries == << >>

----------------------------------------------------------------------------
(* Dates.  A start date string is modelled by its separator and its three  *)
(* fields, read as numbers written without leading zeros.                  *)

DateString(sep, f1, f2, f3) == [sep |-> sep, f1 |-> f1, f2 |-> f2, f3 |-> f3]

IsLeap(y) == (y % 4 = 0 /\ y % 100 # 0) \/ y % 400 = 0

DaysInMonth(m, y) ==
    IF m = 2 THEN (IF IsLeap(y) THEN 29 ELSE 28)
    ELSE IF m \in {4, 6, 9, 11} THEN 30 ELSE 31

\* datetime.strptime(start_date, "%m/%d/%Y") succeeds: fields separated by "/",
\* a month, a day of that month, a year of four digits
StrptimeAcceptsAnyDay(ds) ==
    /\ ds.sep = "/"
    /\ ds.f1 \in 1..12
    /\ ds.f3 \in 1000..9999
StrptimeOk(ds) ==
    /\ ds.sep = "/"
    /\ ds.f1 \in 1..12
    /\ ds.f3 \in 1000..9999
    /\ ds.f2 \in 1..DaysInMonth(ds.f1, ds.f3)

RECURSIVE DaysBeforeMonth(_, _)
DaysBeforeMonth(m, y) ==
    IF m = 1 THEN 0 ELSE DaysBeforeMonth(m - 1, y) + DaysInMonth(m - 1, y)

\* the proleptic Gregorian ordinal of a date (1 for 0001-01-01)
ToOrdinal(y, m, d) ==
    365 * (y - 1) + (y - 1) \div 4 - (y - 1) \div 100 + (y - 1) \div 400
        + DaysBeforeMonth(m, y) + d

\* the ordinal of 1970-01-01, and the seconds of a day
EpochOrdinal == ToOrdinal(1970, 1, 1)
SecondsPerDay == 24 * 60 * 60
\* US/Eastern standard time is UTC-5; the dates of the model lie in standard time
EasternOffset == 5 * 3600

\* est.localize(datetime.strptime(...)).timestamp(): midnight, Eastern time
LocalizedMidnight(ds) ==
    (ToOrdinal(ds.f3, ds.f1, ds.f2) - EpochOrdinal) * SecondsPerDay + EasternOffset

\* the start of the sessions the files already hold
EarlierStart == LocalizedMidnight(DateString("/", 1, 1, 2024)) + 12 * 3600

----------------------------------------------------------------------------
(* merge_books: the three statements *)

\* UPDATE page_stat_data SET id_book = t WHERE id_book = s
RepointRowsKeepSource(rows, s, t) == rows
RepointRows(rows, s, t) ==
    [i \in DOMAIN rows |->
        IF rows[i].id_book = s THEN [rows[i] EXCEPT !.id_book = t] ELSE rows[i]]

\* (SELECT COALESCE(col, 0) FROM book WHERE id = s): NULL when no row has id s
SourceCounter(b, s, col) ==
    IF s \in DOMAIN b THEN Coalesce(b[s][col], 0) ELSE NULL

\* UPDATE book SET total_read_time = COALESCE(total_read_time, 0) + (SELECT ...),
\*                 total_read_pages = COALESCE(total_read_pages, 0) + (SELECT ...)
\* WHERE id = t
SumCountersOverwrite(b, s, t) ==
    [i \in DOMAIN b |->
        IF i = t
        THEN [b[i] EXCEPT
                !.total_read_time = SourceCounter(b, s, "total_read_time"),
                !.total_read_pages = SourceCounter(b, s, "total_read_pages")]
        ELSE b[i]]
SumCounters(b, s, t) ==
    [i \in DOMAIN b |->
        IF i = t
        THEN [b[i] EXCEPT
                !.total_read_time =
                    SqlAdd(Coalesce(b[i].total_read_time, 0),
                           SourceCounter(b, s, "total_read_time")),
                !.total_read_pages =
                    SqlAdd(Coalesce(b[i].total_read_pages, 0),
                           SourceCounter(b, s, "total_read_pages"))]
        ELSE b[i]]

\* DELETE FROM book WHERE id = s
DeleteBook(b, s) == [i \in DOMAIN b \ {s} |-> b[i]]

----------------------------------------------------------------------------
(* The connection.  sqlite3.connect opens the file with the module's      *)
(* default transaction control: an INSERT, UPDATE or DELETE implicitly    *)
(* begins a transaction, its change stays in the connection until         *)
(* conn.commit(), and conn.close() drops what was not committed.          *)

\* cursor.execute of a data-changing statement that leaves the tables as nb, np
ExecuteDmlAutocommit(nb, np) ==
    /\ txBook' = nb /\ txPsd' = np
    /\ book' = nb /\ psd' = np
ExecuteDml(nb, np) ==
    /\ txBook' = nb /\ txPsd' = np
    /\ UNCHANGED <<book, psd>>

\* conn.commit()
Commit ==
    /\ book' = txBook /\ psd' = txPsd
    /\ UNCHANGED <<txBook, txPsd>>

\* conn.close()
CloseSkipped ==
    /\ conn' = conn
    /\ txBook' = book /\ txPsd' = psd
    /\ UNCHANGED <<book, psd>>
Close ==
    /\ conn' = "closed"
    /\ txBook' = book /\ txPsd' = psd
    /\ UNCHANGED <<book, psd>>

\* A call that left the file as it was is followed by no further call: the
\* calls that could follow it are the calls that could be made in its place.
Fresh == call = NoCall \/ book # preBook \/ psd # prePsd

\* entering a call: its arguments, and the tables as they are now
Enter(c, first) ==
    /\ pc = "idle"
    /\ Fresh
    /\ call' = c
    /\ pc' = first
    /\ conn' = "unbound"
    /\ result' = "none"
    /\ preBook' = book /\ prePsd' = psd
    /\ UNCHANGED <<book, psd, txBook, txPsd, series>>

----------------------------------------------------------------------------
(* merge_books(file_path, source_id, target_id) *)

MergeCall(s, t) == [op |-> "merge_books", source_id |-> s, target_id |-> t]

\* a direct call of merge_books
MergeBooks ==
    /\ pc = "idle"
    /\ \E s \in BookIds, t \in BookIds : Enter(MergeCall(s, t), "m_connect")
    /\ UNCHANGED frame

\* merge_books_ui: the button "Merge Books", ids entered with min_value = 1
MergeBooksUi ==
    /\ pc = "idle"
    /\ Fresh
    /\ \E s \in BookIds, t \in BookIds :
        IF s = t
        THEN /\ call' = [op |-> "merge_books_ui", source_id |-> s, target_id |-> t]
             /\ result' = "SameIdError"
             /\ conn' = "unbound"
             /\ preBook' = book /\ prePsd' = psd
             /\ UNCHANGED <<book, psd, txBook, txPsd, pc, frame, series>>
        ELSE /\ Enter(MergeCall(s, t), "m_connect")
             /\ UNCHANGED frame

\* conn = sqlite3.connect(file_path)
MergeConnect ==
    /\ pc = "m_connect"
    /\ \/ /\ conn' = "open"
          /\ pc' = "m_repoint"
          /\ UNCHANGED result
       \/ \* sqlite3.Error: the handler returns, then finally reads conn, never bound
          /\ result' = "UnboundLocalError"
          /\ pc' = "idle"
          /\ UNCHANGED conn
    /\ UNCHANGED <<book, psd, txBook, txPsd, call, frame, preBook, prePsd, series>>

\* a statement of the try block: it runs, or raises sqlite3.Error
MergeStatement(at, nb, np, next) ==
    /\ pc = at
    /\ \/ /\ ExecuteDml(nb, np)
          /\ pc' = next
          /\ UNCHANGED result
       \/ /\ result' = "DbError"
          /\ pc' = "m_finally"
          /\ UNCHANGED <<book, psd, txBook, txPsd>>
    /\ UNCHANGED <<conn, call, frame, preBook, prePsd, series>>

MergeRepoint ==
    MergeStatement("m_repoint",
                   txBook, RepointRows(txPsd, call.source_id, call.target_id),
                   "m_sum")

MergeSum ==
    MergeStatement("m_sum",
                   SumCounters(txBook, call.source_id, call.target_id), txPsd,
                   "m_delete")

MergeDelete ==
    MergeStatement("m_delete",
                   DeleteBook(txBook, call.source_id), txPsd,
                   "m_commit")

\* conn.commit(); return "Successfully merged ..."
MergeCommit ==
    /\ pc = "m_commit"
    /\ \/ /\ Commit
          /\ result' = "Merged"
       \/ /\ result' = "DbError"
          /\ UNCHANGED <<book, psd, txBook, txPsd>>
    /\ pc' = "m_finally"
    /\ UNCHANGED <<conn, call, frame, preBook, prePsd, series>>

\* finally: if conn: conn.close()
MergeFinally ==
    /\ pc = "m_finally"
    /\ Close
    /\ pc' = "idle"
    /\ UNCHANGED <<call, frame, result, preBook, prePsd, series>>

----------------------------------------------------------------------------
(* The database files the merge utility is run on *)

\* the pairs <<total_read_time, total_read_pages>> a book starts with
CounterPairs == {<<NULL, NULL>>, <<Some(1), Some(2)>>}

BookRow(id, pages, time, read) ==
    [title |-> TitleOf(id), pages |-> pages,
     total_read_time |-> time, total_read_pages |-> read]

PsdRow(id, page, start, total) ==
    [id_book |-> id, page |-> page, start_time |-> start,
     duration |-> 60, total_pages |-> total]

SeqsUpTo(S, n) == UNION {[1..k -> S] : k \in 0..n}

\* the non-decreasing sequences over 1..k of length at most n
RECURSIVE SortedSeqsUpTo(_, _)
SortedSeqsUpTo(k, n) ==
    IF n = 0 THEN {<< >>}
    ELSE LET shorter == SortedSeqsUpTo(k, n - 1)
         IN  shorter \cup
             UNION { {Append(q, x) : x \in (IF q = << >> THEN 1 ELSE q[Len(q)])..k} :
                     q \in {r \in shorter : Len(r) = n - 1} }

Quiet ==
    /\ conn = "unbound"
    /\ pc = "idle"
    /\ call = NoCall
    /\ frame = NoFrame
    /\ result = "none"
    /\ series = NoSeries
    /\ txBook = book /\ txPsd = psd
    /\ preBook = book /\ prePsd = psd

InitMerge ==
    /\ \E c \in [BookIds -> CounterPairs] :
          book = [i \in BookIds |-> BookRow(i, Some(10), c[i][1], c[i][2])]
    \* rows of the books, listed by book: no statement of merge_books depends
    \* on the order of the rows
    /\ \E ids \in SortedSeqsUpTo(MaxBookId, MaxRows) :
          psd = [i \in DOMAIN ids |-> PsdRow(ids[i], 1, EarlierStart, 10)]
    /\ Quiet

NextMerge ==
    \/ MergeBooks
    \/ MergeBooksUi
    \/ MergeConnect
    \/ MergeRepoint
    \/ MergeSum
    \/ MergeDelete
    \/ MergeCommit
    \/ MergeFinally

SpecMerge == InitMerge /\ [][NextMerge]_vars

----------------------------------------------------------------------------
(* create_reading_entries(file_path, book_id, start_date, days,            *)
(*                        minutes_per_day, pages_per_minute)               *)
(* The rate pages_per_minute is held in tenths of a page per minute.       *)

\* session_duration = 60
SessionDuration == 60
\* timedelta(hours=19, minutes=30)
SessionStartSeconds == 19 * 3600 + 30 * 60

\* int(pages_per_minute * total_minutes)
PagesToReadRoundedUp(ppm10, minutes) == (ppm10 * minutes + 9) \div 10
PagesToRead(ppm10, minutes) == (ppm10 * minutes) \div 10

\* day_start_time = start_date_dt + timedelta(days=day, hours=19, minutes=30)
DayStartTime(start, day) == start + day * SecondsPerDay + SessionStartSeconds

\* int((day_start_time + timedelta(minutes=(page // pages_per_minute))).timestamp())
EpochTime(dayStart, page, ppm10) == dayStart + ((page * 10) \div ppm10) * 60

\* the inner loop's test: if current_page > total_pages: break
PastLastPage(current, total) == current > total

\* the start dates, rates and book ids the utility is called with
DateStrings ==
    { DateString("/", 1, 15, 2024), DateString("/", 2, 29, 2024),
      DateString("/", 2, 29, 2023), DateString("/", 13, 40, 2024),
      DateString("-", 2024, 1, 15) }
PpmTenths == {5, 10, 15}

CreateCall(b, ds, d, m, r) ==
    [op |-> "create_reading_entries", book_id |-> b, start_date |-> ds,
     days |-> d, minutes_per_day |-> m, pages_per_minute10 |-> r]

\* create_reading_entries_ui: the button "Create Reading Entries"; the inputs
\* have min_value 1 (book id, days, minutes) and 0.1 (rate)
CreateReadingEntries ==
    /\ pc = "idle"
    /\ Len(psd) < MaxRows
    /\ \E b \in BookIds, ds \in DateStrings, d \in 1..MaxDays,
          m \in 1..MaxMinutes, r \in PpmTenths :
            Enter(CreateCall(b, ds, d, m, r), "c_connect")
    /\ frame' = NoFrame

\* what a step of the call leaves alone
CreateKeeps == UNCHANGED <<call, preBook, prePsd, series>>

\* return inside the try block: the finally clause runs next
CreateReturn(r) ==
    /\ result' = r
    /\ pc' = "c_finally"

\* conn = sqlite3.connect(file_path)
CreateConnect ==
    /\ pc = "c_connect"
    /\ \/ /\ conn' = "open"
          /\ pc' = "c_select"
          /\ UNCHANGED result
       \/ \* sqlite3.Error: the handler returns, then finally reads conn, never bound
          /\ result' = "UnboundLocalError"
          /\ pc' = "idle"
          /\ UNCHANGED conn
    /\ UNCHANGED <<book, psd, txBook, txPsd, frame>>
    /\ CreateKeeps

\* cursor.execute("SELECT pages FROM book WHERE id = ?"); cursor.fetchone():
\* the row as a tuple of its one column, << >> when there is no row
SelectPagesAnyBook(b, id) ==
    IF DOMAIN b = {} THEN << >>
    ELSE << b[CHOOSE i \in DOMAIN b : \A j \in DOMAIN b : i <= j].pages >>
SelectPages(b, id) == IF id \in DOMAIN b THEN << b[id].pages >> ELSE << >>

\* the SELECT, and the two tests of its result
CreateSelect ==
    /\ pc = "c_select"
    /\ \/ LET row == SelectPages(txBook, call.book_id) IN
          IF row = << >>
          THEN CreateReturn("NotFound") /\ UNCHANGED frame
          ELSE LET total_pages == row[1] IN
               IF IsNull(total_pages) \/ total_pages = Some(0)
               THEN CreateReturn("NoPageCount") /\ UNCHANGED frame
               ELSE /\ frame' = [total_pages |-> Val(total_pages), current_page |-> 0]
                    /\ pc' = "c_parse"
                    /\ UNCHANGED result
       \/ CreateReturn("DbError") /\ UNCHANGED frame
    /\ UNCHANGED <<book, psd, txBook, txPsd, conn>>
    /\ CreateKeeps

\* start_date_dt = est.localize(datetime.strptime(start_date, "%m/%d/%Y"))
CreateParse ==
    /\ pc = "c_parse"
    /\ IF StrptimeOk(call.start_date)
       THEN /\ frame' = [total_pages |-> frame.total_pages,
                         current_page |-> frame.current_page,
                         start_date_dt |-> LocalizedMidnight(call.start_date),
                         reading_sessions |-> << >>,
                         day |-> 0, day_start_time |-> 0,
                         pages_to_read |-> 0, page |-> 0]
            /\ pc' = "c_day"
            /\ UNCHANGED result
       ELSE CreateReturn("InvalidDate") /\ UNCHANGED frame
    /\ UNCHANGED <<book, psd, txBook, txPsd, conn>>
    /\ CreateKeeps

\* for day in range(days): the head of the loop and the two assignments
CreateDay ==
    /\ pc = "c_day"
    /\ IF frame.day < call.days
       THEN /\ frame' = [frame EXCEPT
                 !.day_start_time = DayStartTime(frame.start_date_dt, frame.day),
                 !.pages_to_read =
                     PagesToRead(call.pages_per_minute10, call.minutes_per_day),
                 !.page = 0]
            /\ pc' = "c_page"
       ELSE /\ pc' = "c_insert"
            /\ UNCHANGED frame
    /\ UNCHANGED <<book, psd, txBook, txPsd, conn, result>>
    /\ CreateKeeps

\* for page in range(pages_to_read): one iteration, or the end of the range
CreatePage ==
    /\ pc = "c_page"
    /\ IF frame.page < frame.pages_to_read
       THEN LET current == frame.current_page + 1 IN
            IF PastLastPage(current, frame.total_pages)
            THEN /\ frame' = [frame EXCEPT !.current_page = current]
                 /\ pc' = "c_endday"
            ELSE /\ frame' = [frame EXCEPT
                      !.current_page = current,
                      !.reading_sessions =
                          Append(@, [id_book |-> call.book_id,
                                     page |-> current,
                                     start_time |->
                                         EpochTime(frame.day_start_time, frame.page,
                                                   call.pages_per_minute10),
                                     duration |-> SessionDuration,
                                     total_pages |-> frame.total_pages]),
                      !.page = @ + 1]
                 /\ pc' = "c_page"
       ELSE /\ pc' = "c_endday"
            /\ UNCHANGED frame
    /\ UNCHANGED <<book, psd, txBook, txPsd, conn, result>>
    /\ CreateKeeps

\* if current_page >= total_pages: break
CreateEndDay ==
    /\ pc = "c_endday"
    /\ IF frame.current_page >= frame.total_pages
       THEN /\ pc' = "c_insert"
            /\ UNCHANGED frame
       ELSE /\ pc' = "c_day"
            /\ frame' = [frame EXCEPT !.day = @ + 1]
    /\ UNCHANGED <<book, psd, txBook, txPsd, conn, result>>
    /\ CreateKeeps

\* if reading_sessions: cursor.executemany("INSERT INTO page_stat_data ...")
CreateInsert ==
    /\ pc = "c_insert"
    /\ IF frame.reading_sessions # << >>
       THEN \/ /\ ExecuteDml(txBook, txPsd \o frame.reading_sessions)
               /\ pc' = "c_commit"
               /\ UNCHANGED result
            \/ /\ CreateReturn("DbError")
               /\ UNCHANGED <<book, psd, txBook, txPsd>>
       ELSE /\ CreateReturn("NoEntries")
            /\ UNCHANGED <<book, psd, txBook, txPsd>>
    /\ UNCHANGED <<conn, frame>>
    /\ CreateKeeps

\* conn.commit(); return f"Inserted {len(reading_sessions)} entries ..."
CreateCommit ==
    /\ pc = "c_commit"
    /\ \/ Commit /\ CreateReturn("Inserted")
       \/ CreateReturn("DbError") /\ UNCHANGED <<book, psd, txBook, txPsd>>
    /\ UNCHANGED <<conn, frame>>
    /\ CreateKeeps

\* finally: if conn: conn.close()
CreateFinally ==
    /\ pc = "c_finally"
    /\ Close
    /\ pc' = "idle"
    /\ UNCHANGED <<frame, result>>
    /\ CreateKeeps

\* the files the generator is run on: book 1 with any page count, book 2 with
\* two pages, and rows of earlier sessions
PageCounts == {NULL} \cup {Some(n) : n \in 0..MaxPages}

InitCreate ==
    /\ \E p \in PageCounts :
          book = [i \in 1..2 |->
                    BookRow(i, IF i = 1 THEN p ELSE Some(2), Some(0), Some(0))]
    /\ psd \in SeqsUpTo({PsdRow(i, 1, EarlierStart, 2) : i \in {2}}, MaxRows - 1)
    /\ Quiet

NextCreate ==
    \/ CreateReadingEntries
    \/ CreateConnect
    \/ CreateSelect
    \/ CreateParse
    \/ CreateDay
    \/ CreatePage
    \/ CreateEndDay
    \/ CreateInsert
    \/ CreateCommit
    \/ CreateFinally

SpecCreate == InitCreate /\ [][NextCreate]_vars

----------------------------------------------------------------------------
(* The per-book completion charts of the summary:                          *)
(* plot_book_completion_over_time (the second definition of that name, the *)
(* one the module ends up with) and plot_completion_vs_cumulative_time.    *)
(* A completion percentage is the fraction num / den, kept exact.          *)

\* the viewer's UTC offset in seconds, as SQLite's 'localtime' applies it
LocalUtcOffset == 0 - EasternOffset

\* date(datetime(start_time, 'unixepoch', 'localtime')), as a day number
LocalDate(t) == (t + LocalUtcOffset) \div SecondsPerDay

SentinelTitles == {"KOReader Quickstart Guide", "Necroscope 003: Blutmesse"}
SentinelId == 10

\* SELECT id, title FROM book b WHERE b.title NOT IN (...) AND b.id != 10
ListedBooks(b) ==
    {i \in DOMAIN b : b[i].title \notin SentinelTitles /\ i # SentinelId}

\* book_dict = {book[1]: book[0] for book in books}: the titles offered, and
\* the ids a title may stand for (the last row of that title in title order;
\* SQLite leaves the order of equal titles open)
BookDictTitles(b) == {b[i].title : i \in ListedBooks(b)}
BookDictIds(b, title) == {i \in ListedBooks(b) : b[i].title = title}

\* the indices of the rows of a book, and of its rows of one local date
RowsOf(rows, id) == {i \in DOMAIN rows : rows[i].id_book = id}
RowsOn(rows, id, d) == {i \in RowsOf(rows, id) : LocalDate(rows[i].start_time) = d}

SetMax(S) == CHOOSE x \in S : \A y \in S : y <= x
SetMin(S) == CHOOSE x \in S : \A y \in S : x <= y

RECURSIVE SortedSeq(_)
SortedSeq(S) ==
    IF S = {} THEN << >> ELSE <<SetMin(S)>> \o SortedSeq(S \ {SetMin(S)})

RECURSIVE SumOver(_, _)
SumOver(S, f) ==
    IF S = {} THEN 0
    ELSE LET x == CHOOSE y \in S : TRUE IN f[x] + SumOver(S \ {x}, f)

\* SELECT MAX(page) FROM page_stat_data WHERE id_book = ?: NULL without rows
MaxPageRead(rows, id) ==
    IF RowsOf(rows, id) = {} THEN NULL
    ELSE Some(SetMax({rows[i].page : i \in RowsOf(rows, id)}))

\* SELECT date(...) AS reading_date, COUNT(DISTINCT page), SUM(duration)
\* FROM page_stat_data WHERE id_book = ? GROUP BY reading_date ORDER BY
\* reading_date.  (The second chart orders the groups by the start time of a
\* row of each group, which is the order of their dates.)
ProgressData(rows, id) ==
    LET dates == SortedSeq({LocalDate(rows[i].start_time) : i \in RowsOf(rows, id)})
    IN  [n \in DOMAIN dates |->
            [reading_date |-> dates[n],
             pages_read |-> Cardinality({rows[i].page : i \in RowsOn(rows, id, dates[n])}),
             time_spent_seconds |->
                 SumOver(RowsOn(rows, id, dates[n]), [i \in DOMAIN rows |-> rows[i].duration])]]

\* Series.cumsum() of a column
RECURSIVE Cumsum(_, _, _)
Cumsum(data, col, n) == IF n = 0 THEN 0 ELSE Cumsum(data, col, n - 1) + data[n][col]

\* (cumulative / total_pages * 100).clip(upper=100), as a fraction over total_pages
Completion(cumulative, total) == Min(100 * cumulative, 100 * total)

IsComplete(pt) == pt.num = 100 * pt.den

\* df_incomplete, then the first row of df_complete
KeepEveryPoint(points) == points
UpToFirstCompletion(points) ==
    LET incomplete == SelectSeq(points, LAMBDA pt : pt.num < 100 * pt.den)
        complete == SelectSeq(points, IsComplete)
    IN  incomplete \o (IF complete = << >> THEN << >> ELSE <<complete[1]>>)

\* the points of either chart: the day index, the cumulative hours (in
\* seconds) and the completion percentage
CompletionSeries(rows, id, total) ==
    LET data == ProgressData(rows, id)
    IN  UpToFirstCompletion(
            [n \in DOMAIN data |->
                [Day |-> n,
                 cumulative_seconds |-> Cumsum(data, "time_spent_seconds", n),
                 num |-> Completion(Cumsum(data, "pages_read", n), total),
                 den |-> total]])

\* either chart, for the book selected in its dropdown
PlotCompletion(op) ==
    /\ pc = "idle"
    /\ Fresh
    /\ \E title \in BookDictTitles(book) : \E id \in BookDictIds(book, title) :
        LET total_pages == MaxPageRead(psd, id) IN
        /\ call' = [op |-> op, book_id |-> id]
        /\ IF IsNull(total_pages) \/ total_pages = Some(0)
           THEN /\ result' = "NoPages"
                /\ series' = NoSeries
           ELSE /\ result' = "Plotted"
                /\ series' = CompletionSeries(psd, id, Val(total_pages))
    /\ preBook' = book /\ prePsd' = psd
    /\ UNCHANGED <<book, psd, txBook, txPsd, conn, pc, frame>>

PlotBookCompletionOverTime == PlotCompletion("plot_book_completion_over_time")

PlotCompletionVsCumulativeTime == PlotCompletion("plot_completion_vs_cumulative_time")

\* the files the charts are drawn from: two books of MaxPages pages, and rows
\* of sessions on three days, one of them late in the evening, local time
PlotBooks == {1, 2}
PlotDay(d) == LocalizedMidnight(DateString("/", 1, d, 2024))
PlotTimes ==
    << PlotDay(15) + 12 * 3600, PlotDay(15) + 22 * 3600 + 30 * 60,
       PlotDay(16) + 12 * 3600, PlotDay(17) + 12 * 3600 >>

\* the rows a file may hold, numbered: book, page and time of the n-th
PlotRowCount == Cardinality(PlotBooks) * MaxPages * Len(PlotTimes)
PlotRow(n) ==
    PsdRow(((n - 1) \div (MaxPages * Len(PlotTimes))) + 1,
           (((n - 1) \div Len(PlotTimes)) % MaxPages) + 1,
           PlotTimes[((n - 1) % Len(PlotTimes)) + 1],
           MaxPages)

InitSummary ==
    /\ book = [i \in PlotBooks |-> BookRow(i, Some(MaxPages), Some(0), Some(0))]
    \* rows are listed in one order: the queries group and order them themselves
    /\ \E ns \in SortedSeqsUpTo(PlotRowCount, MaxPlotRows) :
          psd = [i \in DOMAIN ns |-> PlotRow(ns[i])]
    /\ Quiet

NextSummary ==
    \/ PlotBookCompletionOverTime
    \/ PlotCompletionVsCumulativeTime

SpecSummary == InitSummary /\ [][NextSummary]_vars

----------------------------------------------------------------------------
(* Properties of merge_books *)

\* a counter with NULL counted as 0
Nz(x) == IF IsNull(x) THEN 0 ELSE Val(x)

\* the last call was merge_books, has returned "Successfully merged", and its
\* source and target were two distinct rows of book when it started
MergedDistinctExisting ==
    /\ pc = "idle"
    /\ call.op = "merge_books"
    /\ result = "Merged"
    /\ call.source_id # call.target_id
    /\ call.source_id \in DOMAIN preBook
    /\ call.target_id \in DOMAIN preBook

\* C1: after merge_books(source, target) succeeds for two distinct existing
\* books, book has no row with the source id, the target's total_read_time and
\* total_read_pages each equal the pre-merge sum of the source's and the
\* target's values (NULL counted as 0), and every other book row is unchanged.
C1_MergeSumsCounters ==
    MergedDistinctExisting =>
        LET s == call.source_id
            t == call.target_id
        IN  /\ DOMAIN book = DOMAIN preBook \ {s}
            /\ book[t].total_read_time =
                 Some(Nz(preBook[s].total_read_time) + Nz(preBook[t].total_read_time))
            /\ book[t].total_read_pages =
                 Some(Nz(preBook[s].total_read_pages) + Nz(preBook[t].total_read_pages))
            /\ book[t].title = preBook[t].title
            /\ book[t].pages = preBook[t].pages
            /\ \A i \in DOMAIN preBook \ {s, t} : book[i] = preBook[i]

\* a merge of a book with counters into a book whose counters are NULL, with a
\* third book in the table
C1_Witness ==
    /\ MergedDistinctExisting
    /\ ~IsNull(preBook[call.source_id].total_read_time)
    /\ IsNull(preBook[call.target_id].total_read_time)
    /\ DOMAIN preBook \ {call.source_id, call.target_id} # {}

\* C2: after merge_books(source, target) succeeds, every page_stat_data row that
\* had id_book = source has id_book = target, no row has id_book = source, the
\* number of rows is unchanged and the rows of all other books are untouched;
\* this holds for every merge of a sequence of merges.
C2_MergeRepointsRows ==
    MergedDistinctExisting =>
        LET s == call.source_id
            t == call.target_id
        IN  /\ Len(psd) = Len(prePsd)
            /\ \A i \in DOMAIN psd : psd[i].id_book # s
            /\ \A i \in DOMAIN prePsd :
                 IF prePsd[i].id_book = s
                 THEN psd[i] = [prePsd[i] EXCEPT !.id_book = t]
                 ELSE psd[i] = prePsd[i]

\* a later merge of a sequence (a book is already gone), moving a row of the
\* source while another book has a row too
C2_Witness ==
    /\ MergedDistinctExisting
    /\ DOMAIN preBook # BookIds
    /\ \E i \in DOMAIN prePsd : prePsd[i].id_book = call.source_id
    /\ \E i \in DOMAIN prePsd : prePsd[i].id_book \notin {call.source_id, call.target_id}

\* C3: merge_books called with a source id equal to the target id fails with a
\* validation error and leaves book and page_stat_data unchanged (database
\* errors aside).
C3_SelfMergeRejected ==
    ( /\ pc = "idle"
      /\ call.op \in {"merge_books", "merge_books_ui"}
      /\ call.source_id = call.target_id
      /\ result \notin {"none", "DbError", "UnboundLocalError"} )
    => /\ result = "SameIdError"
       /\ book = preBook
       /\ psd = prePsd

\* C4: merge_books is all-or-nothing: the file holds the tables as they were
\* when the call started until the call has committed, and it holds them so
\* for good when a step failed; once committed it holds all three steps.
C4_MergeAllOrNothing ==
    call.op = "merge_books" =>
        LET s == call.source_id
            t == call.target_id
        IN  IF result = "Merged"
            THEN /\ book = DeleteBook(SumCounters(preBook, s, t), s)
                 /\ psd = RepointRows(prePsd, s, t)
            ELSE /\ book = preBook
                 /\ psd = prePsd

\* a step failed after the rows were repointed and the counters summed in the
\* connection: the handler has run, the connection is still to be closed
C4_Witness ==
    /\ pc = "m_finally"
    /\ result = "DbError"
    /\ txPsd # psd
    /\ txBook # book

----------------------------------------------------------------------------
(* Properties of create_reading_entries *)

CreateDone == pc = "idle" /\ call.op = "create_reading_entries"

\* the call was not cut short by a database error
NoDbError == result \notin {"DbError", "UnboundLocalError"}

\* the rows the call added to page_stat_data
AddedRows == SubSeq(psd, Len(prePsd) + 1, Len(psd))

\* the book of the call exists and has P > 0 pages
BookWithPages ==
    /\ call.book_id \in DOMAIN preBook
    /\ ~IsNull(preBook[call.book_id].pages)
    /\ Val(preBook[call.book_id].pages) > 0

C6_CurrentPageWithinBook ==
    ( /\ call.op = "create_reading_entries"
      /\ "current_page" \in DOMAIN frame )
    => /\ frame.current_page >= 0
       /\ frame.current_page <= frame.total_pages

ValidationFailures == {"InvalidDate", "NoPageCount"}

\* start dates that do not parse as month/day/year: 02/29/2023, 13/40/2024
\* and 2024-1-15
BadDates ==
    { DateString("/", 2, 29, 2023), DateString("/", 13, 40, 2024),
      DateString("-", 2024, 1, 15) }

BadStartDate ==
    /\ call.op = "create_reading_entries"
    /\ call.start_date \in BadDates

\* C7 as stated: given a start date that does not parse, the call returns a
\* validation failure and inserts zero rows.
C7_BadDateIsValidationFailure ==
    (BadStartDate /\ pc = "idle" /\ NoDbError)
    => /\ result \in ValidationFailures
       /\ psd = prePsd
       /\ book = preBook

\* C7 as amended: given a start date that does not parse, the call inserts
\* zero rows, in the file and in the connection; it returns the invalid-date
\* message when the book exists with a page count, the no-page-count message
\* when the book exists without one, and the not-found message otherwise.
C7_BadDateInsertsNothing ==
    BadStartDate =>
        /\ psd = prePsd /\ txPsd = prePsd
        /\ book = preBook /\ txBook = preBook
        /\ (pc = "idle" /\ NoDbError) =>
             result = IF call.book_id \notin DOMAIN preBook THEN "NotFound"
                      ELSE IF BookWithPages THEN "InvalidDate"
                      ELSE "NoPageCount"

\* the date 02/29/2023 given for a book with pages: the date is refused
C7_Witness ==
    /\ BadStartDate
    /\ pc = "idle"
    /\ BookWithPages
    /\ result = "InvalidDate"
    /\ call.start_date = DateString("/", 2, 29, 2023)

\* C8: given a book id that matches no row of book, the call fails with the
\* not-found message whatever the other arguments are, and inserts zero rows.
C8_MissingBookNotFound ==
    ( /\ call.op = "create_reading_entries"
      /\ call.book_id \notin DOMAIN preBook )
    => /\ psd = prePsd /\ txPsd = prePsd
       /\ book = preBook /\ txBook = preBook
       /\ (pc = "idle" /\ NoDbError) => result = "NotFound"

\* a missing book id given together with a date that does not parse
C8_Witness ==
    /\ CreateDone
    /\ call.book_id \notin DOMAIN preBook
    /\ result = "NotFound"
    /\ call.start_date \in BadDates
    /\ prePsd # << >>

----------------------------------------------------------------------------
(* Properties of the completion charts *)

Plotted ==
    /\ call.op \in {"plot_book_completion_over_time",
                    "plot_completion_vs_cumulative_time"}
    /\ result = "Plotted"

\* C9: the completion series of either chart is non-decreasing, every value is
\* at most 100, and the value 100 occurs at most once and only as the last
\* point.
C9_SeriesMonotoneCapped ==
    Plotted =>
        /\ \A i \in DOMAIN series : series[i].num <= 100 * series[i].den
        /\ \A i, j \in DOMAIN series :
             i < j => series[i].num * series[j].den <= series[j].num * series[i].den
        /\ \A i \in DOMAIN series : IsComplete(series[i]) => i = Len(series)

\* a book read on three days and completed on the second: the chart rises to
\* 100 and drops the third day
C9_Witness ==
    /\ Plotted
    /\ Len(series) = 2
    /\ ~IsComplete(series[1])
    /\ IsComplete(series[2])
    /\ Len(ProgressData(psd, call.book_id)) = 3

\* the distinct pages of a book read on or before a local date
PagesReadUpTo(rows, id, d) ==
    {rows[i].page : i \in {j \in RowsOf(rows, id) : LocalDate(rows[j].start_time) <= d}}

\* C10: each point of the completion series equals 100 times the number of
\* distinct pages of the book read on or before that day, divided by the
\* book's page count book.pages, clipped at 100.
C10_CompletionOfDistinctPages ==
    Plotted =>
        LET data == ProgressData(psd, call.book_id)
            pages == Val(book[call.book_id].pages)
        IN  \A i \in DOMAIN series :
                series[i].num * pages =
                    series[i].den
                      * Min(100 * Cardinality(PagesReadUpTo(psd, call.book_id,
                                                            data[i].reading_date)),
                            100 * pages)

----------------------------------------------------------------------------
(* The day-by-day charts of the summary: plot_past_30_days_reading and     *)
(* plot_pages_read_timeline.  A date is a number of days since 1970-01-01; *)
(* the minutes of a day are kept as the seconds they are computed from     *)
(* (minutes_read = seconds / 60.0), so that no value is rounded.           *)

\* date(datetime(start_time, 'unixepoch', 0 || ' seconds')): the UTC date
UtcDate(t) == t \div SecondsPerDay

DayNumber(y, m, d) == ToOrdinal(y, m, d) - EpochOrdinal

\* strftime('%Y', ...) of a date, for the years the model's times lie in
Years == 2023 .. 2025
YearOf(d) ==
    CHOOSE y \in Years : DayNumber(y, 1, 1) <= d /\ d < DayNumber(y + 1, 1, 1)

\* date('now', '-30 days', ...) and pd.date_range(end=today, periods=30)
QueryBackDays == 30
WindowDays == 30

\* WHERE reading_date >= date('now', '-30 days', 0 || ' seconds')
\*   AND psd.id_book != 10
Past30Rows(rows, now) ==
    {i \in DOMAIN rows :
        /\ UtcDate(rows[i].start_time) >= UtcDate(now) - QueryBackDays
        /\ rows[i].id_book # SentinelId}

DurationOf(rows) == [i \in DOMAIN rows |-> rows[i].duration]

\* the query has SUM(psd.duration) and no GROUP BY: it returns one row, whose
\* reading_date is that of a row the engine picks among the selected ones and
\* whose sum is over all of them; both are NULL when no row is selected
Past30Data(rows, now, pick) ==
    LET sel == Past30Rows(rows, now)
    IN  IF sel = {}
        THEN [reading_date |-> NULL, seconds |-> NULL]
        ELSE [reading_date |-> Some(UtcDate(rows[pick].start_time)),
              seconds |-> Some(SumOver(sel, DurationOf(rows)))]

\* pd.date_range(end=today, periods=30), normalized: the 30 dates up to today
DateRange(today) == [k \in 1..WindowDays |-> today - WindowDays + k]

\* pd.merge(df_date_range, df_past_30_days, on="Date", how="left").fillna(0)
MergeInner(range, data) ==
    LET kept == SelectSeq(range, LAMBDA d : data.reading_date = Some(d))
    IN  [k \in DOMAIN kept |-> [Date |-> kept[k], seconds |-> Val(data.seconds)]]
MergeLeft(range, data) ==
    [k \in DOMAIN range |->
        [Date |-> range[k],
         seconds |-> IF data.reading_date = Some(range[k])
                     THEN Val(data.seconds) ELSE 0]]

\* a chart function called on the file as it is, reading the clock as now
ChartCall(op, now) ==
    /\ pc = "idle"
    /\ Fresh
    /\ call' = [op |-> op, now |-> now]
    /\ preBook' = book /\ prePsd' = psd
    /\ UNCHANGED <<book, psd, txBook, txPsd, conn, pc, frame>>

\* the moments the summary is opened at, and the start times of the sessions
\* of the files: local days of January 2024 and the weeks around them
RecapDay(m, d, y) == LocalizedMidnight(DateString("/", m, d, y))
RecapNows ==
    { RecapDay(1, 17, 2024) + 12 * 3600, RecapDay(1, 16, 2024) + 23 * 3600,
      RecapDay(2, 20, 2024) + 12 * 3600 }
RecapTimes ==
    << RecapDay(12, 1, 2023) + 12 * 3600, RecapDay(12, 31, 2023) + 12 * 3600,
       RecapDay(1, 15, 2024) + 12 * 3600, RecapDay(1, 15, 2024) + 22 * 3600 + 30 * 60,
       RecapDay(1, 16, 2024) + 12 * 3600, RecapDay(1, 17, 2024) + 9 * 3600 >>

PlotPast30DaysReading ==
    \E now \in RecapNows :
        /\ ChartCall("plot_past_30_days_reading", now)
        /\ \/ \E pick \in (IF Past30Rows(psd, now) = {} THEN {0}
                           ELSE Past30Rows(psd, now)) :
                /\ series' = MergeLeft(DateRange(LocalDate(now)),
                                       Past30Data(psd, now, pick))
                /\ result' = "Plotted"
           \/ \* except sqlite3.Error: st.error(...)
              /\ series' = NoSeries
              /\ result' = "DbError"

\* WHERE strftime('%Y', datetime(start_time, 'unixepoch', 'localtime'))
\*       = strftime('%Y', 'now')
TimelineRows(rows, now) ==
    {i \in DOMAIN rows : YearOf(LocalDate(rows[i].start_time)) = YearOf(UtcDate(now))}

\* SELECT date(...) AS reading_date, COUNT(DISTINCT psd.page) ...
\* GROUP BY reading_date ORDER BY reading_date
TimelineData(rows, now) ==
    LET sel == TimelineRows(rows, now)
        dates == SortedSeq({LocalDate(rows[i].start_time) : i \in sel})
    IN  [n \in DOMAIN dates |->
            [Date |-> dates[n],
             pages_read |->
                 Cardinality({rows[i].page :
                     i \in {j \in sel : LocalDate(rows[j].start_time) = dates[n]}})]]

PlotPagesReadTimeline ==
    \E now \in RecapNows :
        /\ ChartCall("plot_pages_read_timeline", now)
        /\ \/ /\ series' = TimelineData(psd, now)
              /\ result' = "Plotted"
           \/ \* cursor.execute raises sqlite3.Error
              /\ series' = NoSeries
              /\ result' = "DbError"

\* the files: the books 2 and 10 with sessions on pages 1 and 2
RecapBooks == <<2, SentinelId>>
RecapPages == 2
RecapRowCount == Len(RecapBooks) * RecapPages * Len(RecapTimes)
RecapRow(n) ==
    PsdRow(RecapBooks[((n - 1) \div (RecapPages * Len(RecapTimes))) + 1],
           (((n - 1) \div Len(RecapTimes)) % RecapPages) + 1,
           RecapTimes[((n - 1) % Len(RecapTimes)) + 1],
           RecapPages)

InitRecap ==
    /\ book = [i \in {2, SentinelId} |-> BookRow(i, Some(RecapPages), Some(0), Some(0))]
    /\ \E ns \in SortedSeqsUpTo(RecapRowCount, MaxPlotRows) :
          psd = [i \in DOMAIN ns |-> RecapRow(ns[i])]
    /\ Quiet

NextRecap ==
    \/ PlotPast30DaysReading
    \/ PlotPagesReadTimeline

SpecRecap == InitRecap /\ [][NextRecap]_vars

----------------------------------------------------------------------------
(* Properties of the day-by-day charts *)

Past30Plotted == call.op = "plot_past_30_days_reading" /\ result = "Plotted"

\* the sessions the 30-day chart counts (book 10 is left out) that started
\* on a date, the date being reckoned as the chart's query reckons it
SessionsOn(rows, d) ==
    {i \in DOMAIN rows : rows[i].id_book # SentinelId /\ UtcDate(rows[i].start_time) = d}

TimelinePlotted == call.op = "plot_pages_read_timeline" /\ result = "Plotted"

\* C12: the pages-per-day timeline has exactly one entry for each calendar day
\* of the current year up to today, with zero pages for the days without
\* sessions.
C12_TimelineEveryDay ==
    TimelinePlotted =>
        LET today == LocalDate(call.now)
            first == DayNumber(YearOf(today), 1, 1)
        IN  \A d \in first..today :
                /\ Cardinality({k \in DOMAIN series : series[k].Date = d}) = 1
                /\ \A k \in DOMAIN series :
                     (/\ series[k].Date = d
                      /\ \A i \in DOMAIN psd : LocalDate(psd[i].start_time) # d)
                     => series[k].pages_read = 0

\* C18: the value of each day of the past-30-days series is the sum of the
\* durations of the sessions (book 10 left out) started on that day, divided
\* by 60, for sessions spread over several days.
C18_MinutesOfEachDay ==
    Past30Plotted =>
        \A k \in DOMAIN series :
            series[k].seconds =
                SumOver(SessionsOn(psd, series[k].Date), DurationOf(psd))

----------------------------------------------------------------------------
(* merge_books and ids that match no book *)

\* C17: merge_books called with a source id or a target id that matches no row
\* of book reports a not-found failure and leaves book and page_stat_data
\* unchanged (database errors aside).
C17_MissingIdNotFound ==
    ( /\ pc = "idle"
      /\ call.op = "merge_books"
      /\ \/ call.source_id \notin DOMAIN preBook
         \/ call.target_id \notin DOMAIN preBook
      /\ result \notin {"none", "DbError", "UnboundLocalError"} )
    => /\ result = "NotFound"
       /\ book = preBook
       /\ psd = prePsd

----------------------------------------------------------------------------
(* The tables of the summary: create_books_read_summary,                   *)
(* create_year_in_review_summary and plot_books_read_per_month.            *)
(* A quotient of two numbers is kept as the pair of them.                  *)

\* x / y on pandas columns: a number, or inf or NaN when y is 0
PandasDivide(x, y) ==
    IF y # 0 THEN [kind |-> "number", num |-> x, den |-> y]
    ELSE IF x = 0 THEN [kind |-> "nan", num |-> 0, den |-> 0]
    ELSE [kind |-> "inf", num |-> x, den |-> 0]

\* x / y if y else 0, in Python; None is NULL, and None / y raises TypeError
Number(x) == [kind |-> "number", num |-> x, den |-> 1]
TypeError == [kind |-> "TypeError", num |-> 0, den |-> 0]
DivideIfNonZero(x, y) ==
    IF IsNull(y) \/ y = Some(0) THEN Number(0)
    ELSE IF IsNull(x) THEN TypeError
    ELSE [kind |-> "number", num |-> Val(x), den |-> Val(y)]

\* WHERE date(datetime(start_time, 'unixepoch', '0 seconds'))
\*         >= date('now', '-30 days', '0 seconds')
\*   AND psd.id_book NOT IN (1, 3, 10)
SummaryExcludedBooks == {1, 3, 10}
SummaryRows(rows, now) ==
    {i \in DOMAIN rows :
        /\ UtcDate(rows[i].start_time) >= UtcDate(now) - QueryBackDays
        /\ rows[i].id_book \notin SummaryExcludedBooks}

\* SELECT reading_date, SUM(psd.duration) / 60.0 ... GROUP BY reading_date
\* ORDER BY reading_date: rows of two values
SummaryData(rows, now) ==
    LET sel == SummaryRows(rows, now)
        dates == SortedSeq({UtcDate(rows[i].start_time) : i \in sel})
    IN  [n \in DOMAIN dates |->
            << dates[n],
               SumOver({i \in sel : UtcDate(rows[i].start_time) = dates[n]},
                       DurationOf(rows)) >>]

\* pd.DataFrame(data, columns=["Book Title", "Total Pages Read",
\* "Total Time Spent"]): three names for rows of two values, which raises
\* ValueError unless data has no row
DataFrameOfThreeColumns(data) ==
    IF data = << >> THEN [raised |-> "none", rows |-> << >>]
    ELSE [raised |-> "ValueError", rows |-> << >>]

\* (df["Total Pages Read"] * 3600) / df["Total Time (raw units)"], row by row
SpeedColumn(rows) ==
    [n \in DOMAIN rows |-> PandasDivide(rows[n][2] * 3600, rows[n][3])]

CreateBooksReadSummary ==
    \E now \in RecapNows :
        /\ ChartCall("create_books_read_summary", now)
        /\ \/ LET df_books == DataFrameOfThreeColumns(SummaryData(psd, now)) IN
              IF df_books.raised = "none"
              THEN /\ series' = SpeedColumn(df_books.rows)
                   /\ result' = "Shown"
              ELSE /\ series' = NoSeries
                   /\ result' = df_books.raised
           \/ \* cursor.execute raises sqlite3.Error
              /\ series' = NoSeries
              /\ result' = "DbError"

\* b.title NOT IN ('KOReader Quickstart Guide', 'Necroscope 003: Blutmesse')
\* and b.id != 10
ReviewedBooksOfAnyId(b) == {i \in DOMAIN b : b[i].title \notin SentinelTitles}
ReviewedBooks(b) ==
    {i \in DOMAIN b : b[i].title \notin SentinelTitles /\ i # SentinelId}

\* FROM page_stat_data psd JOIN book b ON psd.id_book = b.id
\* WHERE strftime('%Y', datetime(psd.start_time, 'unixepoch', 'localtime')) = '{year}'
\*   and (the book is reviewed)
ReviewRows(b, rows, year) ==
    {i \in DOMAIN rows :
        /\ rows[i].id_book \in ReviewedBooks(b)
        /\ YearOf(LocalDate(rows[i].start_time)) = year}

\* SUM(DISTINCT x): the sum of the distinct values that are not NULL, NULL
\* when there is none
SumDistinct(values) ==
    LET present == {Val(v) : v \in {w \in values : ~IsNull(w)}}
    IN  IF present = {} THEN NULL
        ELSE Some(SumOver(present, [x \in present |-> x]))

\* x / (3600) in SQL, on integers
SqlDivide(x, y) == IF IsNull(x) THEN NULL ELSE Some(Val(x) \div y)

\* the one row of the query, and the four averages computed from it; a
\* TypeError of any of them escapes the function
YearInReview(b, rows, year) ==
    LET sel == ReviewRows(b, rows, year)
        unique_days_reading ==
            Cardinality({LocalDate(rows[i].start_time) : i \in sel})
        books_completed == Cardinality({rows[i].id_book : i \in sel})
        total_hours_reading ==
            SqlDivide(SumDistinct({b[rows[i].id_book].total_read_time : i \in sel}),
                      3600)
        total_pages_read ==
            SumDistinct({b[rows[i].id_book].total_read_pages : i \in sel})
    IN  [unique_days_reading |-> unique_days_reading,
         books_completed |-> books_completed,
         total_hours_reading |-> total_hours_reading,
         total_pages_read |-> total_pages_read,
         avg_time_per_day |->
             DivideIfNonZero(total_hours_reading, Some(unique_days_reading)),
         avg_pages_per_day |->
             DivideIfNonZero(total_pages_read, Some(unique_days_reading)),
         avg_reading_speed |->
             DivideIfNonZero(total_pages_read, total_hours_reading),
         avg_days_to_complete_book |->
             DivideIfNonZero(Some(unique_days_reading), Some(books_completed))]

MetricRaises(m) ==
    \E f \in {"avg_time_per_day", "avg_pages_per_day", "avg_reading_speed",
              "avg_days_to_complete_book"} : m[f] = TypeError

CreateYearInReviewSummary ==
    \E now \in RecapNows :
        /\ ChartCall("create_year_in_review_summary", now)
        /\ \/ LET m == YearInReview(book, psd, YearOf(LocalDate(now))) IN
              /\ series' = <<m>>
              /\ result' = IF MetricRaises(m) THEN "TypeError" ELSE "Shown"
           \/ \* cursor.execute raises sqlite3.Error
              /\ series' = NoSeries
              /\ result' = "DbError"

\* strftime('%m', ...) of a date
MonthOf(d) ==
    LET y == YearOf(d)
    IN  CHOOSE m \in 1..12 :
            /\ DayNumber(y, m, 1) <= d
            /\ d < DayNumber(y, m, 1) + DaysInMonth(m, y)

\* SELECT month, COUNT(DISTINCT b.title) ... GROUP BY month, then
\* set_index("Month").reindex(range(1, 13), fill_value=0)
BooksReadPerMonth(b, rows, year) ==
    [m \in 1..12 |->
        Cardinality({b[rows[i].id_book].title :
            i \in {j \in ReviewRows(b, rows, year) :
                     MonthOf(LocalDate(rows[j].start_time)) = m}})]

PlotBooksReadPerMonth ==
    \E now \in RecapNows :
        /\ ChartCall("plot_books_read_per_month", now)
        /\ \/ /\ series' = BooksReadPerMonth(book, psd, YearOf(LocalDate(now)))
              /\ result' = "Shown"
           \/ \* cursor.execute raises sqlite3.Error
              /\ series' = NoSeries
              /\ result' = "DbError"

\* the files: books 1 and 2, book 3 under a sentinel title and book 10, with
\* sessions of one page around the turn of the year, one of them of no length
ReviewBooks == <<1, 2, 3, SentinelId>>
ReviewTitle(i) == IF i = 3 THEN "KOReader Quickstart Guide" ELSE TitleOf(i)
ReviewCounters == {<<NULL, NULL>>, <<Some(0), Some(2)>>, <<Some(7200), Some(2)>>}
ReviewSessions ==
    << [start_time |-> RecapDay(12, 31, 2023) + 12 * 3600, duration |-> 60],
       [start_time |-> RecapDay(1, 15, 2024) + 12 * 3600, duration |-> 60],
       [start_time |-> RecapDay(1, 15, 2024) + 22 * 3600 + 30 * 60, duration |-> 0],
       [start_time |-> RecapDay(2, 1, 2024) + 12 * 3600, duration |-> 60] >>
ReviewRowCount == Len(ReviewBooks) * Len(ReviewSessions)
ReviewRow(n) ==
    LET session == ReviewSessions[((n - 1) % Len(ReviewSessions)) + 1]
    IN  [PsdRow(ReviewBooks[((n - 1) \div Len(ReviewSessions)) + 1], 1,
                session.start_time, 10)
            EXCEPT !.duration = session.duration]

InitReview ==
    /\ \E c \in [{1, 2} -> ReviewCounters] :
          book = [i \in {ReviewBooks[k] : k \in DOMAIN ReviewBooks} |->
                    [title |-> ReviewTitle(i), pages |-> Some(10),
                     total_read_time |-> IF i \in {1, 2} THEN c[i][1] ELSE Some(3600),
                     total_read_pages |-> IF i \in {1, 2} THEN c[i][2] ELSE Some(5)]]
    /\ \E ns \in SortedSeqsUpTo(ReviewRowCount, MaxPlotRows) :
          psd = [i \in DOMAIN ns |-> ReviewRow(ns[i])]
    /\ Quiet

NextReview ==
    \/ CreateBooksReadSummary
    \/ CreateYearInReviewSummary
    \/ PlotBooksReadPerMonth

SpecReview == InitReview /\ [][NextReview]_vars

----------------------------------------------------------------------------
(* Properties of the tables of the summary *)

BooksSummaryCalled == call.op = "create_books_read_summary" /\ result # "DbError"
YearInReviewCalled == call.op = "create_year_in_review_summary" /\ result # "DbError"
BooksPerMonthShown == call.op = "plot_books_read_per_month" /\ result = "Shown"

\* the year the summary was opened in
ReviewYear == YearOf(LocalDate(call.now))

\* a sentinel book: one of the two titles, or id 10
IsSentinel(b, i) == b[i].title \in SentinelTitles \/ i = SentinelId

\* the books that are no sentinels and have a session in the year
BooksReadInYear(b, rows, year) ==
    {i \in DOMAIN b :
        /\ ~IsSentinel(b, i)
        /\ \E k \in DOMAIN rows :
             rows[k].id_book = i /\ YearOf(LocalDate(rows[k].start_time)) = year}

\* C13: wherever a reading speed is derived, a total duration of zero yields a
\* speed of exactly zero and no error or infinite or undefined value: in the
\* table of create_books_read_summary for each of its rows whose time is zero,
\* and in the year in review when the books read have no reading time.
C13_ZeroDurationZeroSpeed ==
    /\ BooksSummaryCalled =>
         LET data == SummaryData(psd, call.now)
         IN  (\E n \in DOMAIN data : data[n][2] = 0) =>
                 /\ result = "Shown"
                 /\ Len(series) = Len(data)
                 /\ \A n \in DOMAIN data :
                      data[n][2] = 0 => series[n] = Number(0)
    /\ YearInReviewCalled =>
         LET read == BooksReadInYear(book, psd, ReviewYear)
         IN  (read # {} /\ \A i \in read : book[i].total_read_time = Some(0)) =>
                 /\ result = "Shown"
                 /\ series[1].avg_reading_speed = Number(0)

\* the tables without the sentinel books and their sessions
WithoutSentinelBooks(b) == [i \in {j \in DOMAIN b : ~IsSentinel(b, j)} |-> b[i]]
WithoutSentinelRows(b, rows) ==
    SelectSeq(rows, LAMBDA r : r.id_book \in DOMAIN b => ~IsSentinel(b, r.id_book))

\* C14: a sentinel book never contributes to the year-in-review metrics nor to
\* the books-read-per-month counts: both are what they would be if the
\* sentinel books and all their sessions were not in the file.
C14_SentinelsNeverCounted ==
    /\ YearInReviewCalled =>
         series[1] = YearInReview(WithoutSentinelBooks(book),
                                  WithoutSentinelRows(book, psd), ReviewYear)
    /\ BooksPerMonthShown =>
         series = BooksReadPerMonth(WithoutSentinelBooks(book),
                                    WithoutSentinelRows(book, psd), ReviewYear)

\* the book under a sentinel title and book 10 both have sessions in the
\* year, next to a book that is counted
C14_Witness ==
    /\ YearInReviewCalled
    /\ result = "Shown"
    /\ series[1].books_completed = 1
    /\ \E i, j \in DOMAIN psd :
         /\ psd[i].id_book = SentinelId
         /\ book[psd[j].id_book].title \in SentinelTitles
         /\ YearOf(LocalDate(psd[i].start_time)) = ReviewYear
         /\ YearOf(LocalDate(psd[j].start_time)) = ReviewYear

\* C19: the year-in-review totals are the sums of total_read_pages and of
\* total_read_time (in hours) over the books that are no sentinels and have a
\* session in the current year, each book counted once.
C19_TotalsOverBooks ==
    (YearInReviewCalled /\ result = "Shown") =>
        LET read == BooksReadInYear(book, psd, ReviewYear)
        IN  /\ Nz(series[1].total_pages_read) =
                 SumOver(read, [i \in DOMAIN book |-> Nz(book[i].total_read_pages)])
            /\ Nz(series[1].total_hours_reading) =
                 SumOver(read, [i \in DOMAIN book |-> Nz(book[i].total_read_time)])
                     \div 3600

----------------------------------------------------------------------------
(* The flows of the application: generate_summary, the listing of the      *)
(* books by create_reading_entries_ui and merge_books_ui, and the two      *)
(* utilities.  Of a chart only its outcome is kept here: it returns, or    *)
(* an exception leaves it.                                                 *)

FlowKeeps == UNCHANGED <<book, psd, txBook, txPsd, call, frame, preBook, prePsd, series>>

\* with tempfile.NamedTemporaryFile(delete=False) as temp_file:
\*     temp_file.write(uploaded_file.getvalue())
\* each run of a flow works on a new copy of the uploaded file, so a flow
\* starts from the file as it was uploaded, never from what a run left
Uploaded == call = NoCall

\* generate_summary, a file being uploaded
GenerateSummary ==
    /\ pc = "idle"
    /\ Uploaded
    /\ \E now \in RecapNows :
          Enter([op |-> "generate_summary", now |-> now], "g_connect")
    /\ UNCHANGED frame

\* conn = connect_to_database(temp_file_path), before the try block:
\* connect_to_database turns sqlite3.Error into Exception, which nothing catches
GenerateConnect ==
    /\ pc = "g_connect"
    /\ \/ /\ conn' = "open"
          /\ pc' = "g_books"
          /\ UNCHANGED result
       \/ /\ result' = "ConnectionError"
          /\ pc' = "idle"
          /\ UNCHANGED conn
    /\ FlowKeeps

\* a call of the try block: its query raises sqlite3.Error, which the except
\* clause turns into st.error; or it raises what its computation raises,
\* which no clause catches; or it returns
GenerateStep(at, raised, next) ==
    /\ pc = at
    /\ \/ /\ result' = "DbError"
          /\ pc' = "g_finally"
       \/ IF raised # "none"
          THEN /\ result' = raised
               /\ pc' = "g_finally"
          ELSE /\ pc' = next
               /\ UNCHANGED result
    /\ UNCHANGED conn
    /\ FlowKeeps

\* df_books = create_books_read_summary(conn)
GenerateBooksReadSummary ==
    GenerateStep("g_books",
                 DataFrameOfThreeColumns(SummaryData(txPsd, call.now)).raised,
                 "g_year")

\* create_year_in_review_summary(conn)
GenerateYearInReview ==
    GenerateStep("g_year",
                 IF MetricRaises(YearInReview(txBook, txPsd, YearOf(LocalDate(call.now))))
                 THEN "TypeError" ELSE "none",
                 "g_year_charts")

\* plot_books_read_per_month(conn) ... plot_minutes_read_per_month(conn)
GenerateYearCharts == GenerateStep("g_year_charts", "none", "g_past30")

\* plot_past_30_days_reading(conn): its own except clause shows the error of
\* its query, and the flow goes on
GeneratePast30Days ==
    /\ pc = "g_past30"
    /\ \/ UNCHANGED result
       \/ result' = "DbError"
    /\ pc' = "g_book_charts"
    /\ UNCHANGED conn
    /\ FlowKeeps

\* plot_pages_read_per_book(df_books) ... plot_avg_reading_speed_per_book(df_books)
GenerateBookCharts ==
    /\ pc = "g_book_charts"
    /\ \/ result' = (IF result = "none" THEN "Shown" ELSE result)
       \/ result' = "DbError"
    /\ pc' = "g_finally"
    /\ UNCHANGED conn
    /\ FlowKeeps

\* finally: conn.close()
GenerateFinally ==
    /\ pc = "g_finally"
    /\ Close
    /\ pc' = "idle"
    /\ UNCHANGED <<call, frame, result, preBook, prePsd, series>>

\* create_reading_entries_ui and merge_books_ui, a file being uploaded: the
\* books are listed before the inputs are shown
UtilitiesUi ==
    /\ pc = "idle"
    /\ Uploaded
    /\ \E utility \in {"Create Reading Entries", "Merge Books"} :
          Enter([op |-> "utilities_ui", utility |-> utility], "u_connect")
    /\ UNCHANGED frame

\* conn = connect_to_database(temp_file_path), inside the try block: its
\* Exception is no sqlite3.Error, and the finally clause calls conn.close()
\* on a name that was never bound
UiConnect ==
    /\ pc = "u_connect"
    /\ \/ /\ conn' = "open"
          /\ pc' = "u_list"
          /\ UNCHANGED result
       \/ /\ result' = "UnboundLocalError"
          /\ pc' = "idle"
          /\ UNCHANGED conn
    /\ FlowKeeps

\* cursor.execute("SELECT id, title, pages FROM book"); the table or a warning
UiListBooks ==
    /\ pc = "u_list"
    /\ \/ result' = (IF DOMAIN txBook # {} THEN "Listed" ELSE "NoBooks")
       \/ result' = "DbError"
    /\ pc' = "u_finally"
    /\ UNCHANGED conn
    /\ FlowKeeps

\* finally: conn.close()
UiFinally ==
    /\ pc = "u_finally"
    /\ Close
    /\ pc' = "idle"
    /\ UNCHANGED <<call, frame, result, preBook, prePsd, series>>

\* the button "Create Reading Entries", and the button "Merge Books"
UploadAndCreate == Uploaded /\ CreateReadingEntries
UploadAndMerge == Uploaded /\ MergeBooksUi

\* the files: book 1 without counters and with or without a page count,
\* book 2 with counters and two pages, with no session or one session of
\* either on January 15, 2024
InitApp ==
    /\ \E p \in {NULL, Some(2)} :
          book = [i \in 1..2 |->
                    IF i = 1 THEN BookRow(1, p, NULL, NULL)
                    ELSE BookRow(2, Some(2), Some(0), Some(0))]
    /\ psd \in SeqsUpTo({PsdRow(i, 1, RecapDay(1, 15, 2024) + 12 * 3600, 2) : i \in 1..2}, 1)
    /\ Quiet

NextApp ==
    \/ GenerateSummary
    \/ GenerateConnect
    \/ GenerateBooksReadSummary
    \/ GenerateYearInReview
    \/ GenerateYearCharts
    \/ GeneratePast30Days
    \/ GenerateBookCharts
    \/ GenerateFinally
    \/ UtilitiesUi
    \/ UiConnect
    \/ UiListBooks
    \/ UiFinally
    \/ UploadAndCreate
    \/ CreateConnect
    \/ CreateSelect
    \/ CreateParse
    \/ CreateDay
    \/ CreatePage
    \/ CreateEndDay
    \/ CreateInsert
    \/ CreateCommit
    \/ CreateFinally
    \/ UploadAndMerge
    \/ MergeConnect
    \/ MergeRepoint
    \/ MergeSum
    \/ MergeDelete
    \/ MergeCommit
    \/ MergeFinally

SpecApp == InitApp /\ [][NextApp]_vars

----------------------------------------------------------------------------
(* Properties of the flows *)

\* what a flow shows to the user: its result, a warning, or the message of
\* an error it caught
UserVisibleMessages ==
    { "Shown", "Listed", "NoBooks", "DbError", "SameIdError", "Merged",
      "NotFound", "NoPageCount", "InvalidDate", "Inserted", "NoEntries" }

\* C15: no failure of the summary flow or of the utilities flow escapes as an
\* uncaught exception: every flow that has ended has ended in a message shown
\* to the user.
C15_NoEscapingException ==
    (pc = "idle" /\ call # NoCall) => result \in UserVisibleMessages

\* the flows that open a connection, and the positions before it is opened
ConnectingFlows ==
    {"generate_summary", "utilities_ui", "create_reading_entries", "merge_books"}
BeforeConnect == {"idle", "g_connect", "u_connect", "c_connect", "m_connect"}

\* C16: every connection a flow opens is closed when the flow has ended, on
\* every exit path, by return or by exception; no connection is open when a
\* flow starts or connects, so at most one is open at any time.
C16_ConnectionsClosed ==
    /\ pc \in BeforeConnect => conn # "open"
    /\ (pc = "idle" /\ call # NoCall /\ call.op \in ConnectingFlows) =>
         conn = IF result \in {"ConnectionError", "UnboundLocalError"}
                THEN "unbound" ELSE "closed"

\* an exception that nothing catches has left generate_summary after the
\* connection was opened, and the connection is closed
C16_Witness ==
    /\ pc = "idle"
    /\ call.op = "generate_summary"
    /\ result = "ValueError"
    /\ conn = "closed"

====
